---- MODULE Spec2Model ----
(***************************************************************************)
(* Model of scripts/spec_manager.py: the SpecManager task tracker.         *)
(*                                                                         *)
(* Text is modelled as a sequence of tokens.  The literal markers the code *)
(* looks for ("Priority: P", "Depends on:", "Acceptance Criteria", "-",    *)
(* " [ ]", "TASK-", ".md") are one token each, every other token is one    *)
(* character, so that `in`, split, strip, startswith, slicing and glob     *)
(* are computed on the token sequence as Python computes them on strings.  *)
(***************************************************************************)
EXTENDS Integers, Sequences, FiniteSets, TLC

VARIABLES
    dirs,              \* the directories that exist under specs/tasks
    files,             \* files[d][n]: content of the file named n in directory d
    last,              \* outcome of the last call: result or error, and output;
                       \* nmatch and undoes are history fields
    content,           \* validate_implementation: task["content"]
    lineNo,            \* validate_implementation: line the loop is at, 0 when
                       \* no call is running
    criteria_section,  \* validate_implementation: the in-block flag
    criteria,          \* validate_implementation: criteria captured so far
    cleared            \* history: the flag has been cleared during this call

vars == <<dirs, files, last, content, lineNo, criteria_section, criteria, cleared>>

parserVars == <<content, lineNo, criteria_section, criteria, cleared>>

-----------------------------------------------------------------------------
(* Bounds *)

MaxFiles == 2

MaxReportFiles == 4

MaxLines == 3

-----------------------------------------------------------------------------
(* Generic string helpers (Python str methods on token sequences) *)

NL == "\n"

Whitespace == {" ", NL}

Contains(s, sub) ==
    \E i \in 0..(Len(s) - Len(sub)) : SubSeq(s, i + 1, i + Len(sub)) = sub

StartsWith(s, p) ==
    Len(p) <= Len(s) /\ SubSeq(s, 1, Len(p)) = p

RECURSIVE Split(_, _)
Split(s, sep) ==
    IF \A i \in 1..Len(s) : s[i] # sep
    THEN <<s>>
    ELSE LET i == CHOOSE k \in 1..Len(s) :
                      s[k] = sep /\ \A j \in 1..(k - 1) : s[j] # sep
         IN  <<SubSeq(s, 1, i - 1)>> \o Split(SubSeq(s, i + 1, Len(s)), sep)

RECURSIVE LStrip(_)
LStrip(s) ==
    IF s # <<>> /\ Head(s) \in Whitespace THEN LStrip(Tail(s)) ELSE s

RECURSIVE RStrip(_)
RStrip(s) ==
    IF s # <<>> /\ s[Len(s)] \in Whitespace
    THEN RStrip(SubSeq(s, 1, Len(s) - 1))
    ELSE s

Strip(s) == RStrip(LStrip(s))

Slice(s, n) == SubSeq(s, n + 1, Len(s))

-----------------------------------------------------------------------------
(* Filenames, ids and globbing *)

TaskPrefix == "TASK-"

MdExt == ".md"

OneChar == {"0", "1", "2", "3", "?", "*"}

RECURSIVE GlobMatch(_, _)
GlobMatch(p, n) ==
    IF p = <<>> THEN n = <<>>
    ELSE IF Head(p) = "*"
         THEN GlobMatch(Tail(p), n) \/ (n # <<>> /\ GlobMatch(p, Tail(n)))
    ELSE IF n = <<>> THEN FALSE
    ELSE IF Head(p) = "?"
         THEN Head(n) \in OneChar /\ GlobMatch(Tail(p), Tail(n))
    ELSE Head(p) = Head(n) /\ GlobMatch(Tail(p), Tail(n))

Glob(d, pattern) ==
    IF d \in dirs THEN {n \in DOMAIN files[d] : GlobMatch(pattern, n)} ELSE {}

\* faulty variant: the directories are searched in the opposite order
SearchOrderReversed == <<"completed", "in-progress", "backlog">>

SearchOrder == <<"backlog", "in-progress", "completed">>

ValidStatuses == {"backlog", "in-progress", "completed"}

DirNames == ValidStatuses \cup {"archived"}

TaskPattern(task_id) == task_id \o <<"*", MdExt>>

-----------------------------------------------------------------------------
(* Field extraction in get_task_details *)

PriorityPrefix == "Priority: P"

\* faulty variant: the P1 marker is looked for first
ParsePriorityP1First(c) ==
    IF Contains(c, <<PriorityPrefix, "1">>) THEN "P1"
    ELSE IF Contains(c, <<PriorityPrefix, "0">>) THEN "P0"
    ELSE IF Contains(c, <<PriorityPrefix, "2">>) THEN "P2"
    ELSE "P3"

ParsePriority(c) ==
    IF Contains(c, <<PriorityPrefix, "0">>) THEN "P0"
    ELSE IF Contains(c, <<PriorityPrefix, "1">>) THEN "P1"
    ELSE IF Contains(c, <<PriorityPrefix, "2">>) THEN "P2"
    ELSE "P3"

DependsOn == "Depends on:"

\* <<>> when the "dependencies" key is not set, <<deps>> when it is
ParseDependencies(c) ==
    IF Contains(c, <<DependsOn>>)
    THEN LET lines == Split(c, NL)
             matching == {i \in 1..Len(lines) : Contains(lines[i], <<DependsOn>>)}
             first == CHOOSE i \in matching : \A j \in matching : i <= j
             deps_line == lines[first]
         IN  <<Strip(Split(deps_line, DependsOn)[2])>>
    ELSE <<>>

-----------------------------------------------------------------------------
(* Outcome of the last command: return value, raised error, printed data *)

NoResult ==
    [op |-> "none", id |-> <<>>, to |-> "", result |-> "", status |-> "",
     file |-> <<>>, content |-> <<>>, priority |-> "", dependencies |-> <<>>,
     nmatch |-> 0, listing |-> <<>>, counts |-> <<>>, completion |-> <<>>,
     sections |-> <<>>, criteria |-> <<>>, undoes |-> FALSE]

\* r reports a move that found the file in one directory and put it in another
MoveSucceeded(r) ==
    r.op \in {"move", "update"} /\ r.result = "ok" /\ r.status # r.to

\* number of files the lookup pattern matches over the three status directories
NumMatches(task_id) ==
    Cardinality({dn \in ValidStatuses \X UNION {DOMAIN files[d] : d \in ValidStatuses} :
                    dn[2] \in Glob(dn[1], TaskPattern(task_id))})

MatchDirs(order, task_id) ==
    {i \in 1..Len(order) : Glob(order[i], TaskPattern(task_id)) # {}}

\* get_task_details: the set of results the call can return (the order in
\* which glob yields the entries of one directory is not specified)
GetTaskDetails(task_id) ==
    LET found == MatchDirs(SearchOrder, task_id)
        base  == [NoResult EXCEPT !.op = "show", !.id = task_id,
                                  !.nmatch = NumMatches(task_id)]
    IN  IF found = {}
        THEN {[base EXCEPT !.result = "NotFound"]}
        ELSE LET i == CHOOSE k \in found : \A j \in found : k <= j
                 status == SearchOrder[i]
             IN  {[base EXCEPT !.result = "ok", !.status = status, !.file = n,
                               !.content = files[status][n],
                               !.priority = ParsePriority(files[status][n]),
                               !.dependencies = ParseDependencies(files[status][n])]
                    : n \in Glob(status, TaskPattern(task_id))}

get_task_details(task_id) ==
    /\ \E task \in GetTaskDetails(task_id) : last' = task
    /\ UNCHANGED <<dirs, files, parserVars>>

-----------------------------------------------------------------------------
(* move_task and update_task_status *)

Remove(f, n) == [x \in (DOMAIN f) \ {n} |-> f[x]]

Put(f, n, c) == [x \in (DOMAIN f) \cup {n} |-> IF x = n THEN c ELSE f[x]]

\* faulty variant: the source file is left in place
RelocateCopy(fl, from, to, n) ==
    IF from = to THEN fl
    ELSE [fl EXCEPT ![to] = Put(fl[to], n, fl[from][n])]

\* faulty variant: the destination is created empty
RelocateTruncate(fl, from, to, n) ==
    IF from = to THEN fl
    ELSE [fl EXCEPT ![from] = Remove(fl[from], n),
                    ![to] = Put(fl[to], n, <<>>)]

\* faulty variant: the file is removed and never written
RelocateLose(fl, from, to, n) ==
    IF from = to THEN fl
    ELSE [fl EXCEPT ![from] = Remove(fl[from], n)]

\* shutil.move(old_path, new_path): rename, replacing an existing destination
Relocate(fl, from, to, n) ==
    IF from = to THEN fl
    ELSE [fl EXCEPT ![from] = Remove(fl[from], n),
                    ![to] = Put(fl[to], n, fl[from][n])]

\* history: this call sends task_id back to the status directory from which
\* the call just before it moved it, the id then matching at most one file
Undoes(task_id, new_status) ==
    /\ MoveSucceeded(last)
    /\ last.to \in ValidStatuses
    /\ last.nmatch <= 1
    /\ last.id = task_id
    /\ last.status = new_status

\* the outcomes of move_task: new directory set, new files, result
MoveOutcomes(op, task_id, new_status) ==
    {IF task.result = "NotFound"
     THEN [d |-> dirs, f |-> files,
           r |-> [task EXCEPT !.op = op, !.to = new_status,
                              !.undoes = Undoes(task_id, new_status)]]
     ELSE [d |-> dirs \cup {new_status},
           f |-> Relocate(files, task.status, new_status, task.file),
           r |-> [task EXCEPT !.op = op, !.to = new_status,
                              !.undoes = Undoes(task_id, new_status)]]
       : task \in GetTaskDetails(task_id)}

move_task(task_id, new_status) ==
    /\ \E o \in MoveOutcomes("move", task_id, new_status) :
          /\ dirs' = o.d
          /\ files' = o.f
          /\ last' = o.r
    /\ UNCHANGED parserVars

\* faulty variant: the status is checked after the move
update_task_status_check_after(task_id, status) ==
    /\ \E o \in MoveOutcomes("update", task_id, status) :
          /\ dirs' = o.d
          /\ files' = o.f
          /\ last' = IF status \notin ValidStatuses
                     THEN [NoResult EXCEPT !.op = "update", !.id = task_id,
                              !.to = status, !.result = "InvalidStatus",
                              !.nmatch = NumMatches(task_id)]
                     ELSE o.r
    /\ UNCHANGED parserVars

update_task_status(task_id, status) ==
    /\ IF status \notin ValidStatuses
       THEN /\ last' = [NoResult EXCEPT !.op = "update", !.id = task_id,
                           !.to = status, !.result = "InvalidStatus",
                           !.nmatch = NumMatches(task_id)]
            /\ UNCHANGED <<dirs, files>>
       ELSE \E o \in MoveOutcomes("update", task_id, status) :
               /\ dirs' = o.d
               /\ files' = o.f
               /\ last' = o.r
    /\ UNCHANGED parserVars

-----------------------------------------------------------------------------
(* list_tasks and create_progress_report *)

\* order of the first characters of the tokens that occur in filenames
Rank(t) ==
    CASE t = ".md" -> 1 [] t = ".txt" -> 2 [] t = "0" -> 3 [] t = "1" -> 4
      [] t = "2" -> 5 [] t = "3" -> 6 [] t = "TASK-" -> 7 [] t = "notes" -> 8

RECURSIVE LexLess(_, _)
LexLess(a, b) ==
    IF a = <<>> THEN b # <<>>
    ELSE IF b = <<>> THEN FALSE
    ELSE IF Head(a) = Head(b) THEN LexLess(Tail(a), Tail(b))
    ELSE Rank(Head(a)) < Rank(Head(b))

RECURSIVE Sorted(_)
Sorted(S) ==
    IF S = {} THEN <<>>
    ELSE LET m == CHOOSE x \in S : \A y \in S \ {x} : LexLess(x, y)
         IN  <<m>> \o Sorted(S \ {m})

ListTasks(status) ==
    IF status \notin dirs THEN <<>>
    ELSE Sorted(Glob(status, <<TaskPrefix, "*", MdExt>>))

list_tasks(status) ==
    /\ last' = [NoResult EXCEPT !.op = "list", !.to = status, !.result = "ok",
                                !.listing = ListTasks(status)]
    /\ UNCHANGED <<dirs, files, parserVars>>

\* f"{(num / den) * 100:.1f}" as <<integer part, first decimal>>: the tenths
\* of a percent nearest to 1000 * num / den, a tie going to the even one
\* faulty variant: the digits after the first decimal are cut off
FormatTruncated(num, den) ==
    LET q == (1000 * num) \div den
    IN  <<q \div 10, q % 10>>

FormatPercent(num, den) ==
    LET q == (1000 * num) \div den
        r == (1000 * num) % den
        t == IF 2 * r > den \/ (2 * r = den /\ q % 2 = 1) THEN q + 1 ELSE q
    IN  <<t \div 10, t % 10>>

Min(a, b) == IF a < b THEN a ELSE b

Max(a, b) == IF a > b THEN a ELSE b

ShownBacklog == 5

ShownCompleted == 5

\* the "Completion" line of the report: <<>> when the line is not written
CompletionLine(ncompleted, total) ==
    IF total > 0 THEN <<FormatPercent(ncompleted, total)>> ELSE <<>>

ProgressReport ==
    LET backlog == ListTasks("backlog")
        in_progress == ListTasks("in-progress")
        completed == ListTasks("completed")
        total == Len(backlog) + Len(in_progress) + Len(completed)
    IN  [NoResult EXCEPT
            !.op = "report", !.result = "ok",
            !.counts = <<Len(backlog), Len(in_progress), Len(completed), total>>,
            !.completion = CompletionLine(Len(completed), total),
            !.sections =
                <<in_progress,
                  SubSeq(backlog, 1, Min(ShownBacklog, Len(backlog))),
                  IF Len(backlog) > ShownBacklog
                  THEN <<Len(backlog) - ShownBacklog>> ELSE <<>>,
                  SubSeq(completed, Max(1, Len(completed) - ShownCompleted + 1),
                         Len(completed))>>]

create_progress_report ==
    /\ last' = ProgressReport
    /\ UNCHANGED <<dirs, files, parserVars>>

-----------------------------------------------------------------------------
(* validate_implementation: the acceptance criteria loop, one line a step *)

AcceptanceCriteria == "Acceptance Criteria"

\* "- [ ]": the dash and the 4 characters " [ ]", 5 characters in all
Checkbox == <<"-", " [ ]">>

Dash == <<"-">>

\* faulty variant: a heading after the block has ended is ignored
ProcessLineSingleBlock(line, st) ==
    IF Contains(line, <<AcceptanceCriteria>>)
    THEN [st EXCEPT !.section = ~st.cleared]
    ELSE IF st.section /\ StartsWith(Strip(line), Checkbox)
    THEN [st EXCEPT !.criteria =
             Append(st.criteria, Strip(Slice(Strip(line), Len(Checkbox))))]
    ELSE IF st.section /\ Strip(line) # <<>> /\ ~StartsWith(Strip(line), Dash)
    THEN [st EXCEPT !.section = FALSE, !.cleared = TRUE]
    ELSE st

\* faulty variant: a blank line ends the block
ProcessLineBlankEnds(line, st) ==
    IF Contains(line, <<AcceptanceCriteria>>)
    THEN [st EXCEPT !.section = TRUE]
    ELSE IF st.section /\ StartsWith(Strip(line), Checkbox)
    THEN [st EXCEPT !.criteria =
             Append(st.criteria, Strip(Slice(Strip(line), Len(Checkbox))))]
    ELSE IF st.section /\ ~StartsWith(Strip(line), Dash)
    THEN [st EXCEPT !.section = FALSE, !.cleared = TRUE]
    ELSE st

\* one iteration of the loop body; st.cleared records that the elif branch
\* has cleared the flag during this call (history only, never read)
ProcessLine(line, st) ==
    IF Contains(line, <<AcceptanceCriteria>>)
    THEN [st EXCEPT !.section = TRUE]
    ELSE IF st.section /\ StartsWith(Strip(line), Checkbox)
    THEN [st EXCEPT !.criteria =
             Append(st.criteria, Strip(Slice(Strip(line), Len(Checkbox))))]
    ELSE IF st.section /\ Strip(line) # <<>> /\ ~StartsWith(Strip(line), Dash)
    THEN [st EXCEPT !.section = FALSE, !.cleared = TRUE]
    ELSE st

Lines == Split(content, NL)

validate_begin(task_id) ==
    \E task \in GetTaskDetails(task_id) :
        /\ lineNo = 0
        /\ UNCHANGED <<dirs, files>>
        /\ IF task.result = "NotFound"
           THEN /\ last' = [task EXCEPT !.op = "validate"]
                /\ UNCHANGED parserVars
           ELSE /\ last' = [task EXCEPT !.op = "validate", !.result = "running"]
                /\ content' = task.content
                /\ lineNo' = 1
                /\ criteria_section' = FALSE
                /\ criteria' = <<>>
                /\ cleared' = FALSE

validate_line ==
    /\ lineNo \in 1..Len(Lines)
    /\ LET st == ProcessLine(Lines[lineNo],
                     [section |-> criteria_section, criteria |-> criteria,
                      cleared |-> cleared])
       IN  /\ criteria_section' = st.section
           /\ criteria' = st.criteria
           /\ cleared' = st.cleared
    /\ lineNo' = lineNo + 1
    /\ UNCHANGED <<dirs, files, last, content>>

validate_return ==
    /\ lineNo = Len(Lines) + 1
    /\ last' = [last EXCEPT !.result = "ok", !.criteria = criteria]
    /\ lineNo' = 0
    /\ UNCHANGED <<dirs, files, content, criteria_section, criteria, cleared>>

-----------------------------------------------------------------------------
(* Inputs: filenames, ids, file contents *)

Task1 == <<TaskPrefix, "1", MdExt>>

Task10 == <<TaskPrefix, "1", "0", MdExt>>

Task2 == <<TaskPrefix, "2", MdExt>>

Task3 == <<TaskPrefix, "3", MdExt>>

Task2Txt == <<TaskPrefix, "2", ".txt">>

Notes == <<"notes", MdExt>>

ReportNames == {Task1, Task10, Task2, Task3, Notes}

Ids == {<<TaskPrefix, "1">>, <<TaskPrefix, "1", "0">>, <<TaskPrefix, "?">>,
        <<TaskPrefix, "2">>}

RECURSIVE Join(_)
Join(ls) ==
    IF ls = <<>> THEN <<>>
    ELSE IF Len(ls) = 1 THEN ls[1]
    ELSE ls[1] \o <<NL>> \o Join(Tail(ls))

Item(t) == Checkbox \o <<" ", t>>

Heading == <<"#", " ", AcceptanceCriteria>>

\* "Priority: P1\nDepends on: TASK-003\n## Acceptance Criteria\n- [ ] Do X\n- [ ] Do Y\n"
DocE2E ==
    Join(<< <<PriorityPrefix, "1">>, <<DependsOn, " ", "t">>, Heading,
            Item("x"), Item("y"), <<>> >>)

\* heading, three items, blank line, item, paragraph, item
DocBlock ==
    Join(<< Heading, Item("a"), Item("b"), Item("c"), <<>>, Item("d"),
            <<"x">>, Item("e") >>)

DocPlain == <<PriorityPrefix, "0", NL>>

DocDeps == <<DependsOn, " ", "t">>

\* the files of the initial layouts: TASK-1.md comes with either content
FSFiles ==
    {<<Task1, DocPlain>>, <<Task1, DocDeps>>, <<Task10, DocPlain>>,
     <<Task2Txt, DocDeps>>}

LineKinds ==
    { <<>>, <<" ">>, Heading, Item("a"), <<" ", "-", " [ ]", "b", " ">>,
      <<"-", " ", "x">>, <<"x">>,
      <<PriorityPrefix, "0">>, <<"x", PriorityPrefix, "1", "0">>,
      <<PriorityPrefix, "2">>,
      <<DependsOn, " ", "a", " ">>, <<DependsOn, " ", "b", " ", DependsOn, " ", "a">> }

ParseContents ==
    {Join(ls) : ls \in UNION {[1..n -> LineKinds] : n \in 0..MaxLines}}
        \cup {DocE2E, DocBlock}

-----------------------------------------------------------------------------
(* Initial states *)

EmptyDir == [x \in {} |-> <<>>]

PartialFns(N, C) == UNION {[S -> C] : S \in SUBSET N}

NumFiles(g) == Cardinality(UNION {{d} \X DOMAIN g[d] : d \in DOMAIN g})

\* the layouts of at most maxFiles files, each a <<name, content>> of allowed
Layouts(allowed, maxFiles) ==
    {g \in [ValidStatuses -> PartialFns({a[1] : a \in allowed}, {a[2] : a \in allowed})] :
        /\ NumFiles(g) <= maxFiles
        /\ \A d \in ValidStatuses : \A n \in DOMAIN g[d] : <<n, g[d][n]>> \in allowed}

InitFS(allowed, maxFiles) ==
    \E g \in Layouts(allowed, maxFiles), ds \in SUBSET ValidStatuses :
        /\ \A d \in ValidStatuses : DOMAIN g[d] # {} => d \in ds
        /\ dirs = ds
        /\ files = [d \in DirNames |-> IF d \in ValidStatuses THEN g[d] ELSE EmptyDir]

InitIdle ==
    /\ last = NoResult
    /\ content = <<>>
    /\ lineNo = 0
    /\ criteria_section = FALSE
    /\ criteria = <<>>
    /\ cleared = FALSE

Init == InitFS(FSFiles, MaxFiles) /\ InitIdle

DistinctNames ==
    \A d1, d2 \in ValidStatuses :
        d1 # d2 => DOMAIN files[d1] \cap DOMAIN files[d2] = {}

InitDistinct == Init /\ DistinctNames

InitReport == InitFS(ReportNames \X {DocPlain}, MaxReportFiles) /\ InitIdle

InitParse ==
    /\ \E c \in ParseContents :
          files = [d \in DirNames |->
                      IF d = "backlog" THEN [n \in {Task1} |-> c] ELSE EmptyDir]
    /\ dirs = {"backlog"}
    /\ InitIdle

-----------------------------------------------------------------------------
(* Next-state relations *)

Next ==
    \/ \E task_id \in Ids : get_task_details(task_id)
    \/ \E task_id \in Ids, new_status \in DirNames : move_task(task_id, new_status)
    \/ \E task_id \in Ids, status \in DirNames : update_task_status(task_id, status)
    \/ \E status \in ValidStatuses : list_tasks(status)
    \/ create_progress_report

NextConserve ==
    \/ \E task_id \in Ids, new_status \in ValidStatuses : move_task(task_id, new_status)
    \/ \E task_id \in Ids, status \in DirNames : update_task_status(task_id, status)

NextReport ==
    \/ \E status \in ValidStatuses : list_tasks(status)
    \/ create_progress_report

NextParse ==
    \/ lineNo = 0 /\ \E task_id \in Ids : get_task_details(task_id)
    \/ \E task_id \in Ids : validate_begin(task_id)
    \/ validate_line
    \/ validate_return

Spec == Init /\ [][Next]_vars

SpecConserve == InitDistinct /\ [][NextConserve]_vars

SpecReport == InitReport /\ [][NextReport]_vars

SpecParse == InitParse /\ [][NextParse]_vars

-----------------------------------------------------------------------------
(* Properties *)

StatusPos(d) == CASE d = "backlog" -> 1 [] d = "in-progress" -> 2 [] d = "completed" -> 3

OtherDirs(r) == DirNames \ {r.status, r.to}

\* C1 as stated: after a successful move of a file from status directory A
\* to a different directory B, the file is in B under its original name, no
\* file of that name is in A, and no file of that name is in the third
\* status directory.
C1_NoCopyAnywhere ==
    MoveSucceeded(last) =>
        /\ last.file \in DOMAIN files[last.to]
        /\ last.file \notin DOMAIN files[last.status]
        /\ \A d \in ValidStatuses \ {last.status, last.to} :
              last.file \notin DOMAIN files[d]

\* C1 amended: a successful move from A to a different directory B puts the
\* file, name and content unchanged, in B, leaves no file of that name in A,
\* and leaves every other directory exactly as it was.
C1_TotalMove ==
    [][MoveSucceeded(last') =>
          /\ last'.file \in DOMAIN files'[last'.to]
          /\ files'[last'.to][last'.file] = last'.content
          /\ last'.file \notin DOMAIN files'[last'.status]
          /\ last'.to \in dirs'
          /\ \A d \in OtherDirs(last') : files'[d] = files[d]]_vars

C1_Witness ==
    /\ MoveSucceeded(last)
    /\ \E d \in ValidStatuses \ {last.status, last.to} : last.file \in DOMAIN files[d]

\* C2: when the id matches at most one file over the three status
\* directories, moving it from A to another status B and then back to A
\* succeeds and leaves the file in A with the original name and content,
\* and no file of that name in B.
C2_RoundTrip ==
    [][(/\ MoveSucceeded(last)
        /\ last.to \in ValidStatuses
        /\ last.nmatch <= 1
        /\ last'.op \in {"move", "update"}
        /\ last'.id = last.id
        /\ last'.to = last.status)
       => /\ last'.result = "ok"
          /\ last'.status = last.to
          /\ last'.file = last.file
          /\ last.file \in DOMAIN files'[last.status]
          /\ files'[last.status][last.file] = last.content
          /\ last.file \notin DOMAIN files'[last.to]]_vars

C2_Witness ==
    /\ last.op \in {"move", "update"}
    /\ last.undoes
    /\ last.result = "ok"
    /\ last.file \in DOMAIN files[last.to]

\* C3: update_task_status with a status outside the three recognised ones
\* fails with InvalidStatus, for an id that exists as for one that does not,
\* and leaves the directories and every file where and as they were.
C3_InvalidStatusNoMutation ==
    [][(last'.op = "update" /\ last'.to \notin ValidStatuses) =>
          /\ last'.result = "InvalidStatus"
          /\ dirs' = dirs
          /\ files' = files]_vars

C3_Witness ==
    /\ last.op = "update"
    /\ last.result = "InvalidStatus"
    /\ last.nmatch > 0

HasWildcard(task_id) == \E i \in 1..Len(task_id) : task_id[i] \in {"*", "?"}

\* the filename starts with the id and ends with .md
PrefixName(task_id, n) ==
    /\ StartsWith(n, task_id)
    /\ Len(n) > Len(task_id)
    /\ n[Len(n)] = MdExt

PrefixNames(d, task_id) ==
    IF d \in dirs THEN {n \in DOMAIN files[d] : PrefixName(task_id, n)} ELSE {}

PatternNames(d, task_id) ==
    IF HasWildcard(task_id) THEN Glob(d, TaskPattern(task_id))
    ELSE PrefixNames(d, task_id)

\* C4 as stated: the lookup returns a file whose name starts with the id and
\* ends with .md, from the earliest of backlog, in-progress, completed that
\* holds such a file, and fails with NotFound exactly when none does.
C4_PrefixLookup ==
    last.op = "show" =>
        IF \A d \in ValidStatuses : PrefixNames(d, last.id) = {}
        THEN last.result = "NotFound"
        ELSE /\ last.result = "ok"
             /\ last.file \in PrefixNames(last.status, last.id)
             /\ \A d \in ValidStatuses :
                   StatusPos(d) < StatusPos(last.status) => PrefixNames(d, last.id) = {}

\* C4 amended: the lookup returns a file whose name matches the glob pattern
\* <id>*.md (for an id without wildcard characters: starts with the id and
\* ends with .md), from the earliest of backlog, in-progress, completed that
\* holds such a file, with that directory as status, and fails with NotFound
\* exactly when no status directory holds a matching name.
C4_GlobLookup ==
    last.op = "show" =>
        IF \A d \in ValidStatuses : PatternNames(d, last.id) = {}
        THEN last.result = "NotFound"
        ELSE /\ last.result = "ok"
             /\ last.file \in PatternNames(last.status, last.id)
             /\ last.content = files[last.status][last.file]
             /\ \A d \in ValidStatuses :
                   StatusPos(d) < StatusPos(last.status) => PatternNames(d, last.id) = {}

C4_Witness ==
    /\ last.op = "show"
    /\ last.result = "ok"
    /\ last.status = "in-progress"
    /\ PatternNames("completed", last.id) # {}
    /\ "backlog" \notin dirs

\* p is completed / total * 100 to one decimal place: no other number of
\* tenths of a percent is nearer
NearestTenth(p, ncompleted, total) ==
    LET tenths == 10 * p[1] + p[2]
        err == tenths * total - 1000 * ncompleted
    IN  /\ p[2] \in 0..9
        /\ 2 * err <= total
        /\ 2 * err >= -total

LoopStep == lineNo >= 1 /\ lineNo' = lineNo + 1

ValidateReturned == last.op = "validate" /\ last.result = "ok" /\ lineNo = 0

\* C7 as stated: on the heading, three items, a blank line, an item, a
\* paragraph and an item, only the first three items are captured.
C7_ThreeCaptured ==
    (ValidateReturned /\ last.content = DocBlock) =>
        last.criteria = << <<"a">>, <<"b">>, <<"c">> >>

\* C7 amended: on that content four items are captured, in document order:
\* the first three and the one after the blank line; the item after the
\* paragraph is not.
C7_FourCaptured ==
    (ValidateReturned /\ last.content = DocBlock) =>
        last.criteria = << <<"a">>, <<"b">>, <<"c">>, <<"d">> >>

C7_Witness == ValidateReturned /\ last.content = DocBlock

FirstIndex(s, t) == CHOOSE i \in 1..Len(s) : s[i] = t /\ \A j \in 1..(i - 1) : s[j] # t

HasToken(s, t) == \E i \in 1..Len(s) : s[i] = t

\* C8: the dependencies are absent when no line contains "Depends on:";
\* otherwise they are everything after the first "Depends on:" of the first
\* line containing it, trimmed, also when that line contains it twice.
C8_WholeRemainder ==
    (last.op = "show" /\ last.result = "ok") =>
        LET lines == Split(last.content, NL)
            hits == {i \in 1..Len(lines) : HasToken(lines[i], DependsOn)}
        IN  IF hits = {}
            THEN last.dependencies = <<>>
            ELSE LET line == lines[CHOOSE i \in hits : \A j \in hits : i <= j]
                 IN  last.dependencies =
                        <<Strip(Slice(line, FirstIndex(line, DependsOn)))>>

HasMarker(c, k) ==
    \E i \in 1..(Len(c) - 1) : c[i] = PriorityPrefix /\ c[i + 1] = k

\* C9: the priority is P0 if the content contains "Priority: P0" anywhere,
\* else P1 if it contains "Priority: P1", else P2 if it contains
\* "Priority: P2", else P3, whatever the order of the markers in the text.
C9_PriorityPrecedence ==
    (last.op = "show" /\ last.result = "ok") =>
        last.priority =
            IF HasMarker(last.content, "0") THEN "P0"
            ELSE IF HasMarker(last.content, "1") THEN "P1"
            ELSE IF HasMarker(last.content, "2") THEN "P2"
            ELSE "P3"

C9_Witness ==
    /\ last.op = "show"
    /\ last.result = "ok"
    /\ last.priority = "P0"
    /\ \E i, j \in 1..Len(last.content) :
          /\ i < j
          /\ last.content[i] = PriorityPrefix /\ last.content[i + 1] = "1"
          /\ last.content[j] = PriorityPrefix /\ last.content[j + 1] = "0"

\* the task files of the three status directories, as <<name, content>>
TaskFiles ==
    UNION {{<<n, files[d][n]>> : n \in DOMAIN files[d]} : d \in ValidStatuses}

\* C10: from a state whose filenames are pairwise distinct over the three
\* status directories, every move_task or update_task_status call, failing
\* ones and moves to the current status included, keeps the filenames
\* distinct and keeps the set of files and their contents.
C10_Conservation ==
    [][DistinctNames => (DistinctNames' /\ TaskFiles' = TaskFiles)]_vars

C10_Witness ==
    /\ MoveSucceeded(last)
    /\ DistinctNames
    /\ Cardinality(TaskFiles) >= 2

====
